---- MODULE Spec2Model ----
(***************************************************************************)
(* Model of the hybrid stake + reputation consensus engine                 *)
(* (src/blockchain/ConsensusEngine.ts).                                    *)
(*                                                                         *)
(* Numbers.  A JavaScript Number that carries a score (weight, reputation, *)
(* performance, alignment, the literals 0.5, 0.1, 0.6, 0.4, 0.67) is kept  *)
(* in fixed point with ONE = 1000 standing for 1.0, the representation the *)
(* on-chain program uses for reputation.  The result of a division that    *)
(* may be 0/0 is a record [nan, v] so that NaN is a value of the model.    *)
(* Times are milliseconds, as Date.now() returns them.                     *)
(*                                                                         *)
(* Specifications.  Spec is the whole engine.  SpecSelect runs the         *)
(* consensus loop over every small registry (all insertion orders),        *)
(* SpecEpoch the epoch transition under the clock, SpecChain the consensus *)
(* loop with the candidate blocks that reach the node, SpecOverlap the     *)
(* epoch transition when the timer fires while a callback is in flight,    *)
(* SpecLoops both loops and the health report over one participant         *)
(* (SpecLoopsFair with the timers firing for ever), SpecMetrics the health *)
(* report over every small registry, SpecRegister the registration of      *)
(* participants, SpecAssemble the consensus loop over a chain head that    *)
(* was loaded, SpecEngine both loops under the clock over one participant. *)
(***************************************************************************)
EXTENDS Integers, Sequences, FiniteSets, TLC

VARIABLES
    nodes,          \* this.nodes: the Map, as the sequence of its values in insertion order
    now,            \* Date.now()
    advances,       \* how many times the clock has moved (bounds the run)
    blockHeight,    \* this.blockHeight
    currentBlock,   \* this.currentBlock (NoBlock stands for null)
    tick,           \* the consensus-loop callback in flight: its position and its locals
    lastSel,        \* the last evaluation of isProposer: registry, slot and the id it indexed
    published,      \* the blocks handed to broadcastBlock
    epoch,          \* the epoch-transition callbacks: for each, its position and its locals
    epochs,         \* how many epoch ticks have fired (bounds the run)
    pendingBlocks,  \* the candidate blocks delivered to this node, with their signatures
    metrics,        \* what the last call of getMetrics returned
    events          \* the notifications the last run of pruneInactiveNodes emitted

vars == <<nodes, now, advances, blockHeight, currentBlock, tick, lastSel, published,
          epoch, epochs, pendingBlocks, metrics, events>>

---------------------------------------------------------------------------
(* Fixed point and NaN *)

ONE == 1000

Num(x) == [nan |-> FALSE, v |-> x]
NaN == [nan |-> TRUE, v |-> 0]

Max(a, b) == IF a >= b THEN a ELSE b
Min(a, b) == IF a <= b THEN a ELSE b

\* a - b on Numbers: NaN if either operand is NaN
NumSub(a, b) == IF a.nan \/ b.nan THEN NaN ELSE Num(a.v - b.v)

---------------------------------------------------------------------------
(* Bounds and input sets *)

Ids == {"P1", "P2", "P3"}
Stakes == {0, 100, 200, 300}
Reputations == {500, 1000}
epochDuration == 300000
TimeSteps == {500, epochDuration}
MaxAdvances == 2
Roots == {"r1"}
Undefined == "undefined"

\* stakeWeight, reputationWeight of calculatePriority
stakeWeight == 600
reputationWeight == 400
maxInactivity == 3600000

StartTime == maxInactivity

NoBlock == [height |-> 0, timestamp |-> 0, previousHash |-> "", transactions |-> <<>>,
            neuralStateRoot |-> "", proposer |-> "", signatures |-> {}]

---------------------------------------------------------------------------
(* The mesh collaborator *)

\* this.mesh.getNodeId(): the id of the local participant
getNodeId == "P1"

---------------------------------------------------------------------------
(* Proposer selection *)

RECURSIVE SumStake(_)
SumStake(ns) == IF ns = <<>> THEN 0 ELSE Head(ns).stake + SumStake(Tail(ns))

\* getTotalStake(): reduce over the values, starting from 0n
getTotalStake(ns) == SumStake(ns)

\* mutant: the reputation added whole, its factor 0.4 forgotten
calculatePriorityUnweighted(node, ns) ==
    LET total == SumStake(ns) IN
    IF total = 0 THEN NaN
    ELSE Num(node.stake * ONE * stakeWeight + node.reputation * ONE * total)

\* calculatePriority(node): normalizedStake * 0.6 + reputation * 0.4, with
\* normalizedStake = Number(stake) / Number(totalStake).  The quotient is NaN
\* when the total is 0 (every stake is then 0), and NaN propagates through the
\* sum.  Otherwise the value is kept exactly, as the numerator over the
\* denominator ONE * ONE * totalStake that all nodes of one registry share.
calculatePriority(node, ns) ==
    LET total == getTotalStake(ns) IN
    IF total = 0 THEN NaN
    ELSE Num(node.stake * ONE * stakeWeight + node.reputation * reputationWeight * total)

\* mutant: the comparator with its operands swapped, an ascending sort
comparefnAscending(a, b, ns) == NumSub(calculatePriority(a, ns), calculatePriority(b, ns))

\* the comparator of isProposer: (a, b) => priority(b) - priority(a)
comparefn(a, b, ns) == NumSub(calculatePriority(b, ns), calculatePriority(a, ns))

\* Array.prototype.sort's SortCompare: a NaN result of the comparator counts as +0
SortCompare(a, b, ns) ==
    LET v == comparefn(a, b, ns) IN IF v.nan THEN 0 ELSE v.v

\* insertion of x into a sorted prefix, after every element that does not
\* have to come behind it: the stable step of the engine's sort
RECURSIVE InsertStable(_, _, _)
InsertStable(sorted, x, ns) ==
    IF sorted = <<>> THEN <<x>>
    ELSE LET last == sorted[Len(sorted)] IN
         IF SortCompare(last, x, ns) > 0
         THEN Append(InsertStable(SubSeq(sorted, 1, Len(sorted) - 1), x, ns), last)
         ELSE Append(sorted, x)

RECURSIVE SortFrom(_, _, _)
SortFrom(sorted, rest, ns) ==
    IF rest = <<>> THEN sorted
    ELSE SortFrom(InsertStable(sorted, Head(rest), ns), Tail(rest), ns)

\* Array.from(this.nodes.values()).sort(comparator): a stable sort
sortedNodes(ns) == SortFrom(<<>>, ns, ns)

\* Math.floor(now / 1000)
SlotOf(t) == t \div 1000

\* mutant: the slot taken from the milliseconds, without Math.floor(now / 1000)
selectedIdMillis(ns, t) ==
    IF Len(ns) = 0 THEN Undefined
    ELSE sortedNodes(ns)[(t % Len(ns)) + 1].id

\* sortedNodes[slot]?.id with slot = Math.floor(now / 1000) % this.nodes.size:
\* for an empty registry the index is NaN, the element undefined and ?.id undefined
selectedId(ns, t) ==
    IF Len(ns) = 0 THEN Undefined
    ELSE sortedNodes(ns)[(SlotOf(t) % Len(ns)) + 1].id

\* mutant: a node that finds no participant at the slot takes itself for the proposer
isProposerWhenAlone(ns, t) == Len(ns) = 0 \/ selectedId(ns, t) = getNodeId

\* isProposer()
isProposer(ns, t) == selectedId(ns, t) = getNodeId

---------------------------------------------------------------------------
(* Epoch transition: the pure parts *)

\* maxAdjustment of calculateNewWeight, maxChange of updateReputation (0.1)
maxAdjustment == 100
maxChange == 100

\* mutant: the weight without its lower clamp
calculateNewWeightNoFloor(node, performance) ==
    Min(ONE, node.weight + ((performance - 500) * maxAdjustment) \div ONE)

\* mutant: the reputation moved by the whole deviation, maxChange forgotten
updateReputationUnscaled(node, alignment) ==
    Max(0, Min(ONE, node.reputation + (alignment - 500)))

\* calculateNewWeight(node, performance):
\* max(0, min(1, weight + (performance - 0.5) * maxAdjustment))
calculateNewWeight(node, performance) ==
    LET baseWeight == node.weight
        performanceImpact == performance - 500
    IN Max(0, Min(ONE, baseWeight + (performanceImpact * maxAdjustment) \div ONE))

\* updateReputation(node, alignment):
\* max(0, min(1, reputation + (alignment - 0.5) * maxChange))
updateReputation(node, alignment) ==
    LET currentRep == node.reputation
        change == ((alignment - 500) * maxChange) \div ONE
    IN Max(0, Min(ONE, currentRep + change))

\* the condition under which pruneInactiveNodes deletes a node
isInactive(node, t) == t - node.lastProposal > maxInactivity

\* pruneInactiveNodes(): delete every inactive entry, keep the others in order
pruneInactiveNodes(ns, t) == SelectSeq(ns, LAMBDA n : ~isInactive(n, t))

\* mutant: the notification goes out while the entry is still in the Map
prunedEventsBeforeDelete(ns, t) ==
    LET gone == SelectSeq(ns, LAMBDA n : isInactive(n, t))
    IN [i \in DOMAIN gone |->
           [name |-> "nodePruned",
            id |-> gone[i].id,
            registry |-> {ns[k].id : k \in DOMAIN ns} \ {gone[j].id : j \in 1..(i - 1)}]]

\* the calls of this.emit in one run of pruneInactiveNodes, in their order:
\* each follows this.nodes.delete(id) and carries the id; with each, the ids
\* that a listener called by it finds in the registry
prunedEvents(ns, t) ==
    LET gone == SelectSeq(ns, LAMBDA n : isInactive(n, t))
    IN [i \in DOMAIN gone |->
           [name |-> "nodePruned",
            id |-> gone[i].id,
            registry |-> {ns[k].id : k \in DOMAIN ns} \ {gone[j].id : j \in 1..i}]]

\* the values evaluateNodePerformance and calculateNeuralAlignment may resolve
\* to.  Both are placeholders of the source that resolve to 0.0; the scores of
\* the real evaluation are inputs of calculateNewWeight and updateReputation,
\* drawn here from a set that holds 0.0, 0.5, 1.0 and values far out of range.
Scores == {-19500, 0, 1000, 20500}

---------------------------------------------------------------------------
(* Initial states *)

\* the sequences without repetition over a set of ids: insertion orders of a Map
IdSeqs(S) ==
    {q \in UNION {[1..n -> S] : n \in 0..Cardinality(S)} :
        \A i, j \in DOMAIN q : i # j => q[i] # q[j]}

\* the registries with the ids in the order q and fields taken from the given sets
RegistriesOn(q, stakes, reps, lasts) ==
    {[i \in DOMAIN q |->
        [id |-> q[i], weight |-> ONE, stake |-> f[i].stake,
         reputation |-> f[i].reputation, lastProposal |-> f[i].lastProposal]] :
     f \in [DOMAIN q -> [stake : stakes, reputation : reps, lastProposal : lasts]]}

IdleTick == [pc |-> "idle", err |-> ""]
\* a callback of the epoch transition that is not running.  cur is the id of
\* the node whose evaluation it awaits, done the ids its loop has been given,
\* score the last score it applied, at the time at which the timer started it
IdleEpoch == [pc |-> "idle", cur |-> "", done |-> {}, score |-> 0, err |-> "", at |-> 0]
NoMetrics == [valid |-> FALSE]
NoSel == [valid |-> FALSE, nodes |-> <<>>, at |-> 0, id |-> Undefined, again |-> FALSE]

\* the state after the constructor and loadInitialState, for a registry ns and
\* an accepted head (NoBlock when the chain is empty), with room for n
\* callbacks of the epoch timer
InitLoaded(ns, n, head) ==
    /\ nodes = ns
    /\ now = StartTime
    /\ advances = 0
    /\ blockHeight = head.height
    /\ currentBlock = head
    /\ tick = IdleTick
    /\ lastSel = NoSel
    /\ published = {}
    /\ epoch = [k \in 1..n |-> IdleEpoch]
    /\ epochs = 0
    /\ pendingBlocks = <<>>
    /\ metrics = NoMetrics
    /\ events = <<>>

\* the same over an empty chain
InitCallbacks(ns, n) == InitLoaded(ns, n, NoBlock)

\* the same with one callback of the epoch timer at a time
InitWith(ns) == InitCallbacks(ns, 1)

\* registries for the selection of the proposer: every insertion order, stakes
\* that tie, differ or are all zero, reputations that tie or differ
InitSelect ==
    \E q \in IdSeqs(Ids) : \E ns \in RegistriesOn(q, Stakes, Reputations, {StartTime}) :
        InitWith(ns)

---------------------------------------------------------------------------
(* The clock *)

AdvanceTime ==
    /\ advances < MaxAdvances
    /\ \E dt \in TimeSteps : now' = now + dt
    /\ advances' = advances + 1
    /\ UNCHANGED <<nodes, blockHeight, currentBlock, tick, lastSel, published,
                   epoch, epochs, pendingBlocks, metrics, events>>

---------------------------------------------------------------------------
(* The consensus loop: the callback of startConsensusLoop *)

\* the block proposeBlock builds
NewBlock(root) ==
    [height |-> blockHeight + 1,
     timestamp |-> now,
     previousHash |-> IF currentBlock = NoBlock THEN "" ELSE currentBlock.previousHash,
     transactions |-> <<>>,
     neuralStateRoot |-> root,
     proposer |-> getNodeId,
     signatures |-> {}]

\* the record of an evaluation of isProposer
Observe ==
    [valid |-> TRUE, nodes |-> nodes, at |-> now, id |-> selectedId(nodes, now),
     again |-> /\ lastSel.valid
               /\ lastSel.nodes = nodes
               /\ SlotOf(lastSel.at) = SlotOf(now)
               /\ lastSel.at # now]

\* mutant: proposeBlock is entered whatever isProposer() returns
ConsensusTickUngated ==
    /\ tick.pc = "idle"
    /\ lastSel' = Observe
    /\ tick' = [pc |-> "stateRoot", err |-> ""]
    /\ UNCHANGED <<nodes, now, advances, blockHeight, currentBlock, published,
                   epoch, epochs, pendingBlocks, metrics, events>>

\* the timer fires: isProposer() is evaluated; the proposer enters proposeBlock
\* (collectPendingTransactions resolves to [] at once) and awaits the state
\* root, any other node goes on to validatePendingBlocks
ConsensusTick ==
    /\ tick.pc = "idle"
    /\ lastSel' = Observe
    /\ tick' = [pc |-> IF isProposer(nodes, now) THEN "stateRoot" ELSE "validate",
                err |-> ""]
    /\ UNCHANGED <<nodes, now, advances, blockHeight, currentBlock, published,
                   epoch, epochs, pendingBlocks, metrics, events>>

\* mutant: the proposer's entry is stamped with the time of the block
StateRootReturnsStamping ==
    /\ tick.pc = "stateRoot"
    /\ \E root \in Roots : published' = published \cup {NewBlock(root)}
    /\ tick' = [tick EXCEPT !.pc = "broadcast"]
    /\ nodes' = [i \in DOMAIN nodes |->
                    IF nodes[i].id = getNodeId
                    THEN [nodes[i] EXCEPT !.lastProposal = now]
                    ELSE nodes[i]]
    /\ UNCHANGED <<now, advances, blockHeight, currentBlock, lastSel,
                   epoch, epochs, pendingBlocks, metrics, events>>

\* mesh.computeStateRoot() resolves: the block is built and handed to broadcastBlock
StateRootReturns ==
    /\ tick.pc = "stateRoot"
    /\ \E root \in Roots : published' = published \cup {NewBlock(root)}
    /\ tick' = [tick EXCEPT !.pc = "broadcast"]
    /\ UNCHANGED <<nodes, now, advances, blockHeight, currentBlock, lastSel,
                   epoch, epochs, pendingBlocks, metrics, events>>

\* mutant: the rejection escapes the callback and the loop is not run again
StateRootFailsUncaught ==
    /\ tick.pc = "stateRoot"
    /\ tick' = [pc |-> "crashed", err |-> "StateRootUnavailable"]
    /\ UNCHANGED <<nodes, now, advances, blockHeight, currentBlock, lastSel, published,
                   epoch, epochs, pendingBlocks, metrics, events>>

\* mesh.computeStateRoot() rejects: the catch of the loop logs it, the tick ends
StateRootFails ==
    /\ tick.pc = "stateRoot"
    /\ tick' = [pc |-> "idle", err |-> "StateRootUnavailable"]
    /\ UNCHANGED <<nodes, now, advances, blockHeight, currentBlock, lastSel, published,
                   epoch, epochs, pendingBlocks, metrics, events>>

\* broadcastBlock resolves: proposeBlock returns, validatePendingBlocks is called
BroadcastReturns ==
    /\ tick.pc = "broadcast"
    /\ tick' = [tick EXCEPT !.pc = "validate"]
    /\ UNCHANGED <<nodes, now, advances, blockHeight, currentBlock, lastSel, published,
                   epoch, epochs, pendingBlocks, metrics, events>>

\* validatePendingBlocks(): its body is empty; the tick ends
validatePendingBlocks ==
    /\ tick.pc = "validate"
    /\ tick' = [tick EXCEPT !.pc = "idle"]
    /\ UNCHANGED <<nodes, now, advances, blockHeight, currentBlock, lastSel, published,
                   epoch, epochs, pendingBlocks, metrics, events>>

ConsensusLoop ==
    \/ ConsensusTick
    \/ StateRootReturns
    \/ StateRootFails
    \/ BroadcastReturns
    \/ validatePendingBlocks

NextSelect == AdvanceTime \/ ConsensusLoop

SpecSelect == InitSelect /\ [][NextSelect]_vars

---------------------------------------------------------------------------
(* The epoch transition: the callbacks of startEpochTransition *)

MaxEpochs == 2

\* the entries a for..of over this.nodes has still to yield to the callback e:
\* those of the registry as it is now that the loop has not been given yet
\* (an entry deleted meanwhile is skipped, the order is the insertion order)
Remaining(e, ns) == SelectSeq(ns, LAMBDA n : n.id \notin e.done)

\* the loop at position at yields its next entry, whose evaluation is awaited
Yield(e, ns, at) ==
    LET next == Head(Remaining(e, ns)).id
    IN [e EXCEPT !.pc = at, !.cur = next, !.done = @ \cup {next}]

\* where the callback goes once updateNodeWeights has run through its loop:
\* recalculateReputations starts and awaits mesh.computeConsensus()
AwaitConsensus(e) == [e EXCEPT !.pc = "consensus", !.cur = "", !.done = {}]

\* the callback that the timer starts at time t
StartedAt(t) == [IdleEpoch EXCEPT !.at = t]

\* setInterval fires whether or not the callback of an earlier tick has
\* returned; the new callback takes the first record that is free
FreeSlot(k) ==
    /\ epoch[k].pc = "idle"
    /\ \A j \in DOMAIN epoch : j < k => epoch[j].pc # "idle"

\* the timer fires: updateNodeWeights starts and awaits the evaluation of the
\* first node; over an empty registry its loop has no iteration
EpochTick ==
    \E k \in DOMAIN epoch :
        /\ FreeSlot(k)
        /\ epochs < MaxEpochs
        /\ epochs' = epochs + 1
        /\ epoch' = [epoch EXCEPT ![k] =
                        IF nodes = <<>> THEN AwaitConsensus(StartedAt(now))
                        ELSE Yield(StartedAt(now), nodes, "weights")]
        /\ UNCHANGED <<nodes, now, advances, blockHeight, currentBlock, tick, lastSel,
                       published, pendingBlocks, metrics, events>>

\* node.weight = ... on the node object the loop holds; the registry shows the
\* assignment if the node is still an entry of it
AssignWeight(ns, id, performance) ==
    [i \in DOMAIN ns |->
        IF ns[i].id = id
        THEN [ns[i] EXCEPT !.weight = calculateNewWeight(ns[i], performance)]
        ELSE ns[i]]

\* node.reputation = ... on the node object the loop holds
AssignReputation(ns, id, alignment) ==
    [i \in DOMAIN ns |->
        IF ns[i].id = id
        THEN [ns[i] EXCEPT !.reputation = updateReputation(ns[i], alignment)]
        ELSE ns[i]]

\* evaluateNodePerformance(node) resolves: node.weight is assigned and the loop
\* of updateNodeWeights goes to the next node
PerformanceReturns ==
    \E k \in DOMAIN epoch :
        /\ epoch[k].pc = "weights"
        /\ \E performance \in Scores :
            LET e == [epoch[k] EXCEPT !.score = performance]
            IN /\ nodes' = AssignWeight(nodes, e.cur, performance)
               /\ epoch' = [epoch EXCEPT ![k] =
                               IF Remaining(e, nodes) = <<>> THEN AwaitConsensus(e)
                               ELSE Yield(e, nodes, "weights")]
        /\ UNCHANGED <<now, advances, blockHeight, currentBlock, tick, lastSel, published,
                       epochs, pendingBlocks, metrics, events>>

\* mutant: the rejection escapes the callback, which is never run again
EpochAbortsUncaught(k, at, error) ==
    /\ epoch[k].pc = at
    /\ epoch' = [epoch EXCEPT ![k] = [IdleEpoch EXCEPT !.pc = "crashed", !.err = error]]
    /\ UNCHANGED <<nodes, now, advances, blockHeight, currentBlock, tick, lastSel,
                   published, epochs, pendingBlocks, metrics, events>>

\* an awaited call of the epoch rejects: the catch of the callback logs the
\* error and the callback ends there
EpochAborts(k, at, error) ==
    /\ epoch[k].pc = at
    /\ epoch' = [epoch EXCEPT ![k] = [IdleEpoch EXCEPT !.err = error]]
    /\ UNCHANGED <<nodes, now, advances, blockHeight, currentBlock, tick, lastSel,
                   published, epochs, pendingBlocks, metrics, events>>

PerformanceFails == \E k \in DOMAIN epoch : EpochAborts(k, "weights", "EvaluationUnavailable")

\* mesh.computeConsensus() resolves: the loop of recalculateReputations starts;
\* over an empty registry it has no iteration and pruneInactiveNodes runs
ConsensusReturns ==
    \E k \in DOMAIN epoch :
        /\ epoch[k].pc = "consensus"
        /\ IF nodes = <<>>
           THEN /\ epoch' = [epoch EXCEPT ![k] = IdleEpoch]
                /\ nodes' = pruneInactiveNodes(nodes, now)
                /\ events' = prunedEvents(nodes, now)
           ELSE /\ epoch' = [epoch EXCEPT ![k] = Yield(epoch[k], nodes, "reputations")]
                /\ nodes' = nodes
                /\ events' = events
        /\ UNCHANGED <<now, advances, blockHeight, currentBlock, tick, lastSel, published,
                       epochs, pendingBlocks, metrics>>

ConsensusFails == \E k \in DOMAIN epoch : EpochAborts(k, "consensus", "ConsensusUnavailable")

\* calculateNeuralAlignment(node, consensus) resolves: node.reputation is
\* assigned; after the last node recalculateReputations returns and
\* pruneInactiveNodes() runs in the same turn
AlignmentReturns ==
    \E k \in DOMAIN epoch :
        /\ epoch[k].pc = "reputations"
        /\ \E alignment \in Scores :
            LET e == [epoch[k] EXCEPT !.score = alignment]
                updated == AssignReputation(nodes, e.cur, alignment)
            IN IF Remaining(e, nodes) = <<>>
               THEN /\ nodes' = pruneInactiveNodes(updated, now)
                    /\ events' = prunedEvents(updated, now)
                    /\ epoch' = [epoch EXCEPT ![k] = [IdleEpoch EXCEPT !.score = alignment]]
               ELSE /\ nodes' = updated
                    /\ events' = events
                    /\ epoch' = [epoch EXCEPT ![k] = Yield(e, nodes, "reputations")]
        /\ UNCHANGED <<now, advances, blockHeight, currentBlock, tick, lastSel, published,
                       epochs, pendingBlocks, metrics>>

AlignmentFails == \E k \in DOMAIN epoch : EpochAborts(k, "reputations", "EvaluationUnavailable")

EpochLoop ==
    \/ EpochTick
    \/ PerformanceReturns
    \/ PerformanceFails
    \/ ConsensusReturns
    \/ ConsensusFails
    \/ AlignmentReturns
    \/ AlignmentFails

---------------------------------------------------------------------------
(* The health report: getMetrics *)

\* a / b on Numbers whose quotient is kept exact: NaN for 0 / 0, the fraction
\* n / d otherwise (an infinity when only the divisor is 0)
Quotient(a, b) == [nan |-> (a = 0 /\ b = 0), n |-> a, d |-> b]

RECURSIVE SumReputation(_)
SumReputation(ns) == IF ns = <<>> THEN 0 ELSE Head(ns).reputation + SumReputation(Tail(ns))

\* mutant: the mean without its guard for the empty registry
calculateAverageReputationUnguarded(ns) == Quotient(SumReputation(ns), Len(ns))

\* calculateAverageReputation(): 0 over the empty registry, else the sum of
\* the reputations divided by this.nodes.size
calculateAverageReputation(ns) ==
    IF Len(ns) = 0 THEN Quotient(0, 1)
    ELSE LET total == SumReputation(ns) IN Quotient(total, Len(ns))

\* the stake of the nodes with reputation > 0.5
activeStake(ns) == SumStake(SelectSeq(ns, LAMBDA node : node.reputation > 500))

\* calculateConsensusHealth(): Number(activeStake) / Number(getTotalStake())
calculateConsensusHealth(ns) == Quotient(activeStake(ns), getTotalStake(ns))

\* getMetrics(): synchronous, it reads the registry as it is
getMetrics ==
    /\ metrics' = [valid |-> TRUE,
                   blockHeight |-> blockHeight,
                   activeNodes |-> Len(nodes),
                   averageReputation |-> calculateAverageReputation(nodes),
                   consensusHealth |-> calculateConsensusHealth(nodes)]
    /\ UNCHANGED <<nodes, now, advances, blockHeight, currentBlock, tick, lastSel,
                   published, epoch, epochs, pendingBlocks, events>>

---------------------------------------------------------------------------
(* Candidate blocks delivered by the broadcast collaborator *)

MaxPending == 1
minConsensusThreshold == 670

Hashes == <<"h1", "h2", "h3", "h4", "h5">>

\* the identity of a block, as previousHash refers to it ('' before the first)
Identity(b) == IF b = NoBlock THEN "" ELSE Hashes[b.height]

CandidateBlocks ==
    [height : {1, 5}, timestamp : {StartTime}, previousHash : {"", "h3"},
     proposer : {"P1", "P2"}, signatures : {{}}, status : {"pending"}, reason : {""}]

\* a block proposed elsewhere arrives and waits for validation.  A delivery is
\* a turn of the event loop of its own: it does not fall between the call of
\* validatePendingBlocks, which awaits nothing, and its return.
ReceiveBlock ==
    /\ tick.pc # "validate"
    /\ Len(pendingBlocks) < MaxPending
    /\ \E c \in CandidateBlocks : pendingBlocks' = Append(pendingBlocks, c)
    /\ UNCHANGED <<nodes, now, advances, blockHeight, currentBlock, tick, lastSel,
                   published, epoch, epochs, metrics, events>>

\* the signature of a registered participant arrives for a pending block
ReceiveSignature ==
    /\ tick.pc # "validate"
    /\ \E i \in DOMAIN pendingBlocks : \E k \in DOMAIN nodes :
        /\ pendingBlocks[i].status = "pending"
        /\ nodes[k].id \notin pendingBlocks[i].signatures
        /\ pendingBlocks' = [pendingBlocks EXCEPT ![i].signatures = @ \cup {nodes[k].id}]
    /\ UNCHANGED <<nodes, now, advances, blockHeight, currentBlock, tick, lastSel,
                   published, epoch, epochs, metrics, events>>

Broadcast == ReceiveBlock \/ ReceiveSignature

---------------------------------------------------------------------------
(* Registration, as the on-chain program carries it out *)

\* mutant: the reputation of the new participant left at 0
registeredUnseeded(id, stake, t) ==
    [id |-> id, weight |-> ONE, stake |-> stake, reputation |-> 0, lastProposal |-> t]

\* the participant that registration creates: the stake given, weight 1, the
\* neutral reputation 1.0 (1000 on chain), last proposal at the registration
registered(id, stake, t) ==
    [id |-> id, weight |-> ONE, stake |-> stake, reputation |-> ONE, lastProposal |-> t]

\* register(id, initialStake): the registry with the new participant added
\* behind the others, which are left as they are
register(ns, id, stake, t) == Append(ns, registered(id, stake, t))

\* a node registers; an id that is present already is refused
\* (DuplicateParticipant) and the registry stays as it is
registerNode ==
    /\ \E id \in Ids \ {nodes[i].id : i \in DOMAIN nodes} : \E stake \in Stakes :
        nodes' = register(nodes, id, stake, now)
    /\ UNCHANGED <<now, advances, blockHeight, currentBlock, tick, lastSel, published,
                   epoch, epochs, pendingBlocks, metrics, events>>

---------------------------------------------------------------------------
(* The engine *)

ChainStakes == {33, 67}

\* registries of up to two participants that hold 33 or 67 of the stake, for
\* the candidates that gather signatures
InitChain ==
    \E q \in IdSeqs({"P1", "P2"}) :
        \E ns \in RegistriesOn(q, ChainStakes, {ONE}, {StartTime}) : InitWith(ns)

\* registries of up to two participants that proposed last at time 0 (inactive
\* for maxInactivity when the run starts) or at the start of the run
InitEpoch ==
    \E q \in IdSeqs({"P1", "P2"}) :
        \E ns \in RegistriesOn(q, {100}, {ONE}, {0, StartTime}) : InitWith(ns)

\* the registry of P1 and P2, or none
Init ==
    \E q \in {<<>>, <<"P1", "P2">>} :
        \E ns \in RegistriesOn(q, ChainStakes, {ONE}, {0}) : InitWith(ns)

Next == AdvanceTime \/ ConsensusLoop \/ EpochLoop \/ Broadcast \/ getMetrics

Spec == Init /\ [][Next]_vars

\* the epoch transition alone, under the clock; one callback at a time
NextEpoch == AdvanceTime \/ EpochLoop

SpecEpoch == InitEpoch /\ [][NextEpoch]_vars

\* how many callbacks of the epoch timer may be in flight together
MaxInFlight == 2

\* the epoch transition under the clock when a callback may still await an
\* evaluation at the time the timer fires again, over the registry of P1 (last
\* proposal at time 0) and P2 (last proposal at the start of the run)
InitOverlap ==
    InitCallbacks([i \in 1..2 |->
                      [id |-> <<"P1", "P2">>[i], weight |-> ONE, stake |-> 100,
                       reputation |-> ONE, lastProposal |-> <<0, StartTime>>[i]]],
                  MaxInFlight)

NextOverlap == AdvanceTime \/ EpochLoop

SpecOverlap == InitOverlap /\ [][NextOverlap]_vars

\* the two loops and the health report together, over the registry of P1
\* alone, loaded with a proposal at the start of the run or with none
InitLoops ==
    \E ns \in RegistriesOn(<<"P1">>, {100}, {ONE}, {0, StartTime}) : InitWith(ns)

NextLoops == ConsensusLoop \/ EpochLoop \/ getMetrics

SpecLoops == InitLoops /\ [][NextLoops]_vars

\* the same with the timers of setInterval firing again and again: a tick that
\* can start does start
SpecLoopsFair == SpecLoops /\ WF_vars(ConsensusTick) /\ WF_vars(EpochTick)

\* the health report over every small registry (the empty one and those whose
\* stakes are all 0 included)
NextMetrics == getMetrics

SpecMetrics == InitSelect /\ [][NextMetrics]_vars

\* registrations into an empty registry, under the clock
InitRegister == InitWith(<<>>)

NextRegister == AdvanceTime \/ registerNode

SpecRegister == InitRegister /\ [][NextRegister]_vars

\* the accepted head of a node that joins a chain of three blocks
SyncedHead ==
    [NoBlock EXCEPT !.height = 3, !.timestamp = StartTime - 1000, !.previousHash = "h2",
                    !.neuralStateRoot = "r1", !.proposer = "P2"]

\* the consensus loop of P1, alone in its registry, over the empty chain or
\* over the chain it has synchronised with, under the clock
InitAssemble ==
    \E ns \in RegistriesOn(<<"P1">>, {100}, {ONE}, {StartTime}) :
        \E head \in {NoBlock, SyncedHead} : InitLoaded(ns, 1, head)

NextAssemble == AdvanceTime \/ ConsensusLoop

SpecAssemble == InitAssemble /\ [][NextAssemble]_vars

\* both loops under the clock, over the registry of P1
\* alone, whose last proposal lies maxInactivity before the start of the run
InitEngine ==
    \E ns \in RegistriesOn(<<"P1">>, {100}, {ONE}, {0}) : InitWith(ns)

NextEngine == AdvanceTime \/ ConsensusLoop \/ EpochLoop

SpecEngine == InitEngine /\ [][NextEngine]_vars

\* the consensus loop alone, with the candidate blocks that reach it
NextChain == ConsensusLoop \/ Broadcast

SpecChain == InitChain /\ [][NextChain]_vars

---------------------------------------------------------------------------
(* Claims about the selection of the proposer *)

\* the ids of a registry
IdsOf(ns) == {ns[i].id : i \in DOMAIN ns}

\* the slot s of an evaluation made at time t, in whole seconds
ClaimSlot(t) == t \div 1000

\* priority(p) = 0.6 * stake(p) / totalStake + 0.4 * reputation(p), multiplied
\* by 10 * ONE * totalStake to stay in the integers (totalStake > 0)
ClaimPriority(p, ns) == 6 * p.stake * ONE + 4 * p.reputation * SumStake(ns)

\* the registries that hold the same participants in another insertion order
Reorderings(ns) ==
    {[i \in DOMAIN ns |-> ns[f[i]]] :
        f \in {g \in [DOMAIN ns -> DOMAIN ns] : \A i, j \in DOMAIN ns : i # j => g[i] # g[j]}}

\* p is at index k (from 0) of some descending order of ns by the key:
\* at most k participants lie strictly above it, more than k lie at or above it
AtRank(p, k, ns, key(_)) ==
    /\ Cardinality({i \in DOMAIN ns : key(ns[i]) > key(p)}) <= k
    /\ Cardinality({i \in DOMAIN ns : key(ns[i]) >= key(p)}) > k

\* C1: determinism.  Two successive evaluations of the proposer selection over
\* the same registry and for the same slot yield the same participant, whatever
\* the time within the slot at which each is made.
C1_Determinism ==
    [][(/\ lastSel.valid
        /\ lastSel'.valid
        /\ lastSel'.nodes = lastSel.nodes
        /\ ClaimSlot(lastSel'.at) = ClaimSlot(lastSel.at))
       => lastSel'.id = lastSel.id]_vars

\* the selection was evaluated again in the same slot, at another time, over
\* the same registry of two or more participants
C1_Witness == lastSel.again /\ Len(lastSel.nodes) >= 2

\* C2: ties in priority are broken by id, so a registry that holds the same
\* participants in another insertion order sorts to the same order and gives
\* the same proposer for the current slot.  (Stated where the total stake is
\* above 0, so that every priority is a number.)
C2_TieBreakById ==
    SumStake(nodes) > 0 =>
        \A other \in Reorderings(nodes) :
            /\ sortedNodes(other) = sortedNodes(nodes)
            /\ selectedId(other, now) = selectedId(nodes, now)

\* C3: over a registry of N > 0 participants with a total stake above 0 (where
\* the priority is defined) the participant selected for slot s is at index
\* s mod N of the participants in descending priority; with stakes 100, 200,
\* 300 and equal reputation the order is P3, P2, P1 and slot 0 selects P3.
C3_Example(ns) ==
    /\ IdsOf(ns) = {"P1", "P2", "P3"}
    /\ \A i \in DOMAIN ns :
        /\ ns[i].reputation = ns[1].reputation
        /\ ns[i].stake = CASE ns[i].id = "P1" -> 100 [] ns[i].id = "P2" -> 200 [] OTHER -> 300

C3_SelectedAtSlotIndex ==
    (lastSel.valid /\ Len(lastSel.nodes) > 0 /\ SumStake(lastSel.nodes) > 0) =>
        LET ns == lastSel.nodes
            k == ClaimSlot(lastSel.at) % Len(ns)
            Key(p) == ClaimPriority(p, ns)
        IN /\ \E i \in DOMAIN ns :
                /\ ns[i].id = lastSel.id
                /\ AtRank(ns[i], k, ns, Key)
           /\ C3_Example(ns) =>
                /\ [i \in 1..3 |-> sortedNodes(ns)[i].id] = <<"P3", "P2", "P1">>
                /\ k = 0 => lastSel.id = "P3"

\* the selection was evaluated for a slot with s mod 3 = 0 over the registry of
\* the example, inserted in the order P1, P2, P3
C3_Witness ==
    /\ lastSel.valid
    /\ C3_Example(lastSel.nodes)
    /\ [i \in 1..3 |-> lastSel.nodes[i].id] = <<"P1", "P2", "P3">>
    /\ ClaimSlot(lastSel.at) % 3 = 0
    /\ lastSel.id = "P3"

\* C9: when the total stake is 0 over N > 0 participants no priority is NaN,
\* each priority is 0.4 * reputation, and the participant selected for slot s
\* is at index s mod N of the participants in descending reputation.
C9_ZeroTotalStake ==
    (lastSel.valid /\ Len(lastSel.nodes) > 0 /\ SumStake(lastSel.nodes) = 0) =>
        LET ns == lastSel.nodes
            k == ClaimSlot(lastSel.at) % Len(ns)
            Key(p) == p.reputation
        IN /\ \A i \in DOMAIN ns : ~calculatePriority(ns[i], ns).nan
           /\ \E i \in DOMAIN ns :
                /\ ns[i].id = lastSel.id
                /\ AtRank(ns[i], k, ns, Key)

\* a consensus tick starts: isProposer() is evaluated
TickStarts == tick.pc = "idle" /\ tick' # tick

---------------------------------------------------------------------------
(* Claims about the epoch transition *)

Abs(x) == IF x < 0 THEN -x ELSE x

\* clamp(old + (score - 0.5) * 0.1, 0, 1) in fixed point
ClaimDrift(old, score) ==
    LET v == old + (score - 500) \div 10
    IN IF v < 0 THEN 0 ELSE IF v > ONE THEN ONE ELSE v

C5_BoundedDrift ==
    [][\A k \in DOMAIN epoch : (epoch'[k].score \in 0..ONE) =>
        \A i \in DOMAIN nodes : \A j \in DOMAIN nodes' :
            nodes[i].id = nodes'[j].id =>
                /\ Abs(nodes'[j].weight - nodes[i].weight) <= 100
                /\ Abs(nodes'[j].reputation - nodes[i].reputation) <= 100
                /\ nodes'[j].weight # nodes[i].weight =>
                      nodes'[j].weight = ClaimDrift(nodes[i].weight, epoch'[k].score)
                /\ nodes'[j].reputation # nodes[i].reputation =>
                      nodes'[j].reputation = ClaimDrift(nodes[i].reputation, epoch'[k].score)]_vars

\* a participant whose weight and reputation have each moved by 0.05
C5_Witness ==
    /\ \A k \in DOMAIN epoch : epoch[k].score \in 0..ONE
    /\ \E i \in DOMAIN nodes : nodes[i].weight = 950 /\ nodes[i].reputation = 950

\* an epoch tick ends: its callback returns, through the try or through the catch
EpochEnds == \E k \in DOMAIN epoch : epoch[k].pc # "idle" /\ epoch'[k].pc = "idle"

\* C6: right after an epoch tick has ended every participant inactive for more
\* than maxInactivity is absent from the registry, and every other one (one
\* inactive for exactly maxInactivity included) is present with its id, stake
\* and lastProposal unchanged.
C6_PruningCorrectness ==
    [][EpochEnds =>
        \A i \in DOMAIN nodes :
            IF now - nodes[i].lastProposal > maxInactivity
            THEN nodes[i].id \notin IdsOf(nodes')
            ELSE \E j \in DOMAIN nodes' :
                    /\ nodes'[j].id = nodes[i].id
                    /\ nodes'[j].stake = nodes[i].stake
                    /\ nodes'[j].lastProposal = nodes[i].lastProposal]_vars

\* the participants for which the self-check "am I the proposer" is true at
\* time t in some observer that holds the participants of ns, whatever the
\* order in which that observer came to register them
Eligible(ns, t) ==
    {me \in Ids : \E view \in Reorderings(ns) : selectedId(view, t) = me}

\* C20: in every slot exactly one participant is eligible to propose.  Among
\* the observers that hold the registry of an evaluation (not empty, total
\* stake above 0 so that every priority is a number) the self-check is true
\* for exactly one participant id, and that id is registered.
C20_ExactlyOneProposer ==
    (lastSel.valid /\ Len(lastSel.nodes) > 0 /\ SumStake(lastSel.nodes) > 0) =>
        /\ Cardinality(Eligible(lastSel.nodes, lastSel.at)) = 1
        /\ Eligible(lastSel.nodes, lastSel.at) \subseteq IdsOf(lastSel.nodes)

---------------------------------------------------------------------------
(* Claims about the validation of candidate blocks *)

\* the candidate continues the accepted chain: one above the accepted height
\* and pointing at the identity of the accepted head
ChainLinked(c) ==
    /\ c.height = blockHeight + 1
    /\ c.previousHash = Identity(currentBlock)

\* the stake of the registered participants whose signature the candidate holds
RECURSIVE SignedStake(_, _)
SignedStake(c, ns) ==
    IF ns = <<>> THEN 0
    ELSE (IF Head(ns).id \in c.signatures THEN Head(ns).stake ELSE 0)
         + SignedStake(c, Tail(ns))

\* signed stake / totalStake >= minConsensusThreshold
ApprovalMet(c) ==
    /\ SumStake(nodes) > 0
    /\ SignedStake(c, nodes) * ONE >= minConsensusThreshold * SumStake(nodes)

\* a run of validatePendingBlocks returns
ValidateEnds == tick.pc = "validate" /\ tick'.pc = "idle"

\* C7: chain integrity.  A run of validatePendingBlocks accepts a pending
\* candidate only if it is one above the accepted height and points at the
\* accepted head, and a pending candidate that violates either condition
\* leaves it rejected with ChainMismatch.
C7_ChainIntegrity ==
    [][ValidateEnds =>
        \A i \in DOMAIN pendingBlocks :
            pendingBlocks[i].status = "pending" =>
                /\ pendingBlocks'[i].status = "accepted" => ChainLinked(pendingBlocks[i])
                /\ ~ChainLinked(pendingBlocks[i]) =>
                      /\ pendingBlocks'[i].status = "discarded"
                      /\ pendingBlocks'[i].reason = "ChainMismatch"]_vars

\* C8: threshold acceptance.  A run of validatePendingBlocks leaves a pending
\* candidate that continues the chain pending while the stake behind its
\* signatures is below minConsensusThreshold of the total, turns it to accepted
\* once that fraction meets the threshold (exactly 67% counts), and never
\* changes a candidate that is accepted already.
C8_ThresholdAcceptance ==
    [][ValidateEnds =>
        \A i \in DOMAIN pendingBlocks :
            /\ (pendingBlocks[i].status = "pending" /\ ChainLinked(pendingBlocks[i])) =>
                  pendingBlocks'[i].status =
                      IF ApprovalMet(pendingBlocks[i]) THEN "accepted" ELSE "pending"
            /\ pendingBlocks[i].status = "accepted" =>
                  pendingBlocks'[i] = pendingBlocks[i]]_vars

\* the participant that the local selection computes for the slot of candidate c
ClaimProposerOf(c) ==
    IF nodes = <<>> THEN Undefined
    ELSE sortedNodes(nodes)[(ClaimSlot(c.timestamp) % Len(nodes)) + 1].id

\* C19: anti-impersonation.  A run of validatePendingBlocks never accepts a
\* pending candidate whose declared proposer differs from the participant that
\* the local selection computes for the slot of the block, and it leaves such
\* a candidate rejected, with InvalidProposer when the candidate continues the
\* chain (the check of the chain comes first).  (Stated over a registry that
\* is not empty, where the selection computes a participant.)
C19_AntiImpersonation ==
    [][ValidateEnds =>
        \A i \in DOMAIN pendingBlocks :
            (/\ nodes # <<>>
             /\ pendingBlocks[i].status = "pending"
             /\ pendingBlocks[i].proposer # ClaimProposerOf(pendingBlocks[i])) =>
                /\ pendingBlocks'[i].status = "discarded"
                /\ ChainLinked(pendingBlocks[i]) =>
                      pendingBlocks'[i].reason = "InvalidProposer"]_vars

---------------------------------------------------------------------------
(* Claims about the numbers of the selection and of the health report *)

\* C11: in every reachable state whose registry has a total stake above 0, the
\* priority 0.6 * stake / totalStake + 0.4 * reputation of every participant
\* is a number that lies in [0, 1].  (The priority is kept as a numerator over
\* ONE * ONE * totalStake, so 1 is that denominator.)
C11_PriorityInUnitInterval ==
    SumStake(nodes) > 0 =>
        \A i \in DOMAIN nodes :
            LET priority == calculatePriority(nodes[i], nodes)
            IN /\ ~priority.nan
               /\ 0 <= priority.v
               /\ priority.v <= ONE * ONE * SumStake(nodes)

\* an epoch has run to its end with an alignment of 1.0 and left a participant
\* that holds the whole stake with reputation 1: its priority is exactly 1
C11_Witness ==
    /\ epochs > 0
    /\ \E k \in DOMAIN epoch : epoch[k].pc = "idle" /\ epoch[k].score = ONE
    /\ SumStake(nodes) > 0
    /\ \E i \in DOMAIN nodes :
        /\ nodes[i].stake = SumStake(nodes)
        /\ nodes[i].reputation = ONE
        /\ calculatePriority(nodes[i], nodes) = Num(ONE * ONE * SumStake(nodes))

---------------------------------------------------------------------------
(* Claims about failures and concurrency of the loops *)

\* the evaluation that the callback k awaits (performance or alignment of the
\* participant cur) fails in this step
EvaluationFails(k) ==
    /\ epoch[k].pc \in {"weights", "reputations"}
    /\ epoch'[k].err = "EvaluationUnavailable"

\* the callback e has assigned the weight, the reputation of participant id
WeightUpdatedIn(e, id) ==
    e.pc \in {"consensus", "reputations"} \/ (e.pc = "weights" /\ id \in e.done \ {e.cur})
ReputationUpdatedIn(e, id) ==
    e.pc = "reputations" /\ id \in e.done \ {e.cur}

\* C12: failure isolation.  When the evaluation of one participant fails in
\* an epoch, the failing participant keeps its weight and reputation and every
\* other participant has received its weight update and its reputation update
\* by the time the callback of that epoch ends.
C12_FailureIsolation ==
    [][\A k \in DOMAIN epoch :
        (EvaluationFails(k) /\ epoch'[k].pc = "idle") =>
            \A i \in DOMAIN nodes :
                IF nodes[i].id = epoch[k].cur
                THEN nodes'[i] = nodes[i]
                ELSE /\ WeightUpdatedIn(epoch[k], nodes[i].id)
                     /\ ReputationUpdatedIn(epoch[k], nodes[i].id)]_vars

\* C13: epochs never overlap.  When the timer starts the callback of an epoch,
\* epochDuration or more after it started the one before, no other callback
\* of the epoch transition is still between its first step and its last.
C13_EpochsNeverOverlap ==
    [][\A k \in DOMAIN epoch :
        (/\ epoch[k].pc = "idle"
         /\ epoch'[k].pc # "idle"
         /\ \A j \in DOMAIN epoch : epoch[j].pc # "idle" => now >= epoch[j].at + epochDuration)
        => \A j \in DOMAIN epoch : epoch[j].pc = "idle"]_vars

\* the participants that the callback e has left partially updated: the weight
\* of this epoch assigned, the reputation still that of the epoch before
PartiallyUpdated(e) ==
    {id \in IdsOf(nodes) : WeightUpdatedIn(e, id) /\ ~ReputationUpdatedIn(e, id)}

\* a reader runs: the consensus tick evaluates the selection over the registry,
\* or getMetrics returns a report that differs from the last
ReaderRuns == TickStarts \/ metrics' # metrics

\* C14: a reader that runs while an epoch is in progress reads no participant
\* record that is partially updated (weight of the current epoch, reputation
\* of the previous one).
C14_NoPartialRead ==
    [][ReaderRuns => \A k \in DOMAIN epoch : PartiallyUpdated(epoch[k]) = {}]_vars

\* mesh.computeStateRoot() fails in this step, in the tick of a proposer
StateRootFailure == tick.pc = "stateRoot" /\ tick'.err = "StateRootUnavailable"

\* C15: when the mesh cannot produce a state root while the local node is the
\* proposer, the assembly fails: no block is handed to the broadcast, the
\* block height, the accepted head and the registry are unchanged, and the
\* loop is left ready for its next tick; that next tick runs as any other
\* (it evaluates the selection and proposes or goes on to validation).
C15_StateRootFailure ==
    [][/\ StateRootFailure =>
            /\ isProposer(lastSel.nodes, lastSel.at)
            /\ published' = published
            /\ blockHeight' = blockHeight
            /\ currentBlock' = currentBlock
            /\ nodes' = nodes
            /\ tick'.pc = "idle"
       /\ (tick.err = "StateRootUnavailable" /\ tick' # tick) =>
            /\ tick.pc = "idle"
            /\ lastSel'.valid /\ lastSel'.at = now /\ lastSel'.nodes = nodes
            /\ tick'.err = ""
            /\ tick'.pc = IF lastSel'.id = getNodeId THEN "stateRoot" ELSE "validate"]_vars

\* the state root has failed in a tick that had published nothing, and the
\* loop is ready for its next tick
C15_Witness ==
    /\ tick = [pc |-> "idle", err |-> "StateRootUnavailable"]
    /\ lastSel.valid /\ lastSel.id = getNodeId
    /\ published = {}

\* no callback is in a crashed or terminated position, a callback that has
\* failed has returned, and after a failure of either loop each timer can
\* start its next tick as soon as the tick before it has returned (for the
\* epoch loop while the run has epochs left)
LoopsReady ==
    /\ tick.pc \in {"idle", "stateRoot", "broadcast", "validate"}
    /\ \A k \in DOMAIN epoch : epoch[k].pc \in {"idle", "weights", "consensus", "reputations"}
    /\ tick.err # "" => tick.pc = "idle"
    /\ \A k \in DOMAIN epoch : epoch[k].err # "" => epoch[k].pc = "idle"
    /\ (tick.err # "" \/ \E k \in DOMAIN epoch : epoch[k].err # "") =>
            /\ tick.pc = "idle" => ENABLED ConsensusTick
            /\ ((\E k \in DOMAIN epoch : epoch[k].pc = "idle") /\ epochs < MaxEpochs)
                  => ENABLED EpochTick

\* C16: no error raised inside a consensus tick or an epoch tick stops the
\* periodic loops.  The loops are always ready in the sense above, and with
\* the timers firing a consensus tick that has failed is followed by a later
\* consensus tick, an epoch tick that has failed by a later epoch tick (while
\* the run has epochs left).
C16_LoopsSurviveErrors ==
    /\ []LoopsReady
    /\ (tick.err # "") ~> (tick.pc # "idle")
    /\ \A n \in 0..(MaxEpochs - 1) :
          ((\E k \in DOMAIN epoch : epoch[k].err # "") /\ epochs = n) ~> (epochs > n)

\* a consensus tick and an epoch tick have both failed, and both timers can
\* start their next tick
C16_Witness ==
    /\ tick.err = "StateRootUnavailable"
    /\ \E k \in DOMAIN epoch : epoch[k].err = "EvaluationUnavailable"
    /\ epochs < MaxEpochs
    /\ ENABLED ConsensusTick
    /\ ENABLED EpochTick

---------------------------------------------------------------------------
(* Claims about the health report *)

\* the sum of a sequence of integers
RECURSIVE ClaimSum(_)
ClaimSum(q) == IF q = <<>> THEN 0 ELSE q[Len(q)] + ClaimSum(SubSeq(q, 1, Len(q) - 1))

\* the Number q is the fraction a / b (b > 0)
QuotientIs(q, a, b) == ~q.nan /\ q.d # 0 /\ q.n * b = a * q.d

\* getMetrics returns a report in this step (one that differs from the last)
MetricsRead == metrics' # metrics

\* C17: consensusHealth is the stake of the participants with reputation
\* strictly above 0.5 divided by the total stake, and it is 0 (not NaN) when
\* the total stake is 0, the empty registry included.
C17_ConsensusHealth ==
    [][MetricsRead =>
        LET total == ClaimSum([i \in DOMAIN nodes |-> nodes[i].stake])
            above == ClaimSum([i \in DOMAIN nodes |->
                        IF nodes[i].reputation > 500 THEN nodes[i].stake ELSE 0])
        IN IF total = 0
           THEN QuotientIs(metrics'.consensusHealth, 0, 1)
           ELSE QuotientIs(metrics'.consensusHealth, above, total)]_vars

\* C18: averageReputation is the arithmetic mean of the reputation of the
\* participants in the registry at the time of the call, and 0 when the
\* registry is empty.
C18_AverageReputation ==
    [][MetricsRead =>
        LET sum == ClaimSum([i \in DOMAIN nodes |-> nodes[i].reputation])
        IN IF Len(nodes) = 0
           THEN QuotientIs(metrics'.averageReputation, 0, 1)
           ELSE QuotientIs(metrics'.averageReputation, sum, Len(nodes))]_vars

\* the report over three participants with reputations 0.5, 0.5 and 1.0, in
\* some order: their mean is 2/3
C18_Witness ==
    /\ metrics.valid
    /\ metrics.activeNodes = 3
    /\ Len(nodes) = 3
    /\ metrics.averageReputation = Quotient(2 * ONE, 3)

---------------------------------------------------------------------------
(* Claims about registration *)

\* C21: whatever the registry, registering an id that is not present with a
\* stake creates one participant with that id and that stake, weight 1, the
\* neutral reputation 1.0 and active status (it is a member of the registry),
\* and leaves every other participant as it was.
C21_Registration ==
    \A id \in Ids \ IdsOf(nodes) : \A stake \in Stakes :
        LET after == register(nodes, id, stake, now)
            created == {i \in DOMAIN after : after[i].id = id}
        IN /\ Cardinality(created) = 1
           /\ \A i \in created :
                /\ after[i].stake = stake
                /\ after[i].weight = ONE
                /\ after[i].reputation = ONE
           /\ IdsOf(after) = IdsOf(nodes) \cup {id}
           /\ \A i \in DOMAIN nodes : \E j \in DOMAIN after : after[j] = nodes[i]

\* P2 has registered with stake 300 behind P1, which keeps the stake 100,
\* the weight and the reputation it registered with
C21_Witness ==
    /\ Len(nodes) = 2
    /\ nodes[1] = [id |-> "P1", weight |-> ONE, stake |-> 100, reputation |-> ONE,
                    lastProposal |-> StartTime]
    /\ nodes[2].id = "P2" /\ nodes[2].stake = 300 /\ nodes[2].reputation = ONE
    /\ nodes[2].lastProposal > StartTime

---------------------------------------------------------------------------
(* Claims about the assembly of blocks *)

\* C22: every block assembled by proposeBlock has the height of the last
\* accepted block plus 1, the identity of the last accepted block as
\* previousHash (empty only for the first block), no signature, and the local
\* node as proposer.
C22_AssembledBlock ==
    \A b \in published :
        /\ b.height = blockHeight + 1
        /\ b.previousHash = Identity(currentBlock)
        /\ (b.previousHash = "") = (b.height = 1)
        /\ b.signatures = {}
        /\ b.proposer = getNodeId

---------------------------------------------------------------------------
(* Proposals and inactivity *)

\* the proposals of a participant that have been broadcast: proposeBlock has
\* returned with them
ProposalsOf(id) ==
    IF tick.pc \in {"idle", "validate"}
    THEN {b \in published : b.proposer = id}
    ELSE {}

\* C23: a participant that proposed a block successfully less than
\* maxInactivity ago is not removed from the registry by an epoch tick
C23_RecentProposerRetained ==
    [][\A i \in DOMAIN nodes :
          (\E b \in ProposalsOf(nodes[i].id) : now - b.timestamp < maxInactivity)
              => nodes[i].id \in IdsOf(nodes')]_vars

---------------------------------------------------------------------------
(* The steps of one epoch *)

\* the callbacks in flight were started epochDuration or more apart, as the
\* timer starts them
TimerSpaced ==
    \A j, k \in DOMAIN epoch :
        (j # k /\ epoch[j].pc # "idle" /\ epoch[k].pc # "idle") =>
            \/ epoch[j].at + epochDuration <= epoch[k].at
            \/ epoch[k].at + epochDuration <= epoch[j].at

\* some participant's field differs between the registry and the registry
\* after the step
Changes(field(_)) ==
    \E i \in DOMAIN nodes : \E j \in DOMAIN nodes' :
        nodes'[j].id = nodes[i].id /\ field(nodes'[j]) # field(nodes[i])

\* C24: within one epoch tick weights change only in the weight step,
\* reputations only in the reputation step that follows it, participants are
\* removed only by the step that ends the tick; a step is left only when every
\* participant has been processed, and from the start of the tick to its end
\* the set of participants its steps process is the one the registry held
\* when the tick started.
C24_EpochStepOrder ==
    [][\A k \in DOMAIN epoch :
        /\ epoch'[k] # epoch[k] =>
              /\ Changes(LAMBDA n : n.weight) => epoch[k].pc = "weights"
              /\ Changes(LAMBDA n : n.reputation) => epoch[k].pc = "reputations"
              /\ IdsOf(nodes') # IdsOf(nodes) =>
                    epoch[k].pc \in {"consensus", "reputations"} /\ epoch'[k].pc = "idle"
              /\ (epoch[k].pc = "weights" /\ epoch'[k].pc = "consensus") =>
                    IdsOf(nodes) \subseteq epoch[k].done
              /\ (epoch[k].pc = "reputations" /\ epoch'[k].pc = "idle" /\ epoch'[k].err = "") =>
                    IdsOf(nodes) \subseteq epoch[k].done
        /\ (TimerSpaced /\ epoch[k].pc # "idle" /\ epoch'[k].pc # "idle") =>
              IdsOf(nodes') = IdsOf(nodes)]_vars

---------------------------------------------------------------------------
(* The notifications of pruning *)

\* pruneInactiveNodes runs: a callback of the epoch transition returns through
\* its try
PruningRuns ==
    \E k \in DOMAIN epoch :
        /\ epoch[k].pc \in {"consensus", "reputations"}
        /\ epoch'[k].pc = "idle"
        /\ epoch'[k].err = ""

\* the notifications of events that carry the id
NotificationsOf(id) == {i \in DOMAIN events : events[i].id = id}

\* C25: a run of pruning emits exactly one 'nodePruned' carrying the id for
\* each participant it removes, emitted when that participant is already
\* absent from the registry, and none for a participant it retains; no other
\* step emits a notification.
C25_RemovalNotifications ==
    [][IF PruningRuns
       THEN /\ \A id \in IdsOf(nodes) \ IdsOf(nodes') :
                  /\ Cardinality(NotificationsOf(id)') = 1
                  /\ \A i \in NotificationsOf(id)' :
                        events'[i].name = "nodePruned" /\ id \notin events'[i].registry
            /\ \A id \in IdsOf(nodes') : NotificationsOf(id)' = {}
            /\ \A i \in DOMAIN events' : events'[i].id \in IdsOf(nodes)
       ELSE events' = events /\ IdsOf(nodes') = IdsOf(nodes)]_vars

\* a run of pruning has removed one participant and retained another
C25_Witness ==
    /\ Len(events) = 1
    /\ events[1].id \notin IdsOf(nodes)
    /\ nodes # <<>>

---------------------------------------------------------------------------
(* The gate of block assembly *)

\* the consensus tick in flight is inside proposeBlock
InProposeBlock == tick.pc \in {"stateRoot", "broadcast"}

\* C26: block assembly is attempted in a consensus tick only if the local id
\* is the proposer selected for the slot at the start of that tick: a tick
\* enters proposeBlock only from a self-check that selected the local id, and
\* a block is handed to the broadcast only inside such a tick.
C26_AssemblyOnlyBySelected ==
    [][/\ (~InProposeBlock /\ InProposeBlock') =>
            /\ tick.pc = "idle"
            /\ nodes # <<>>
            /\ sortedNodes(nodes)[(ClaimSlot(now) % Len(nodes)) + 1].id = getNodeId
       /\ InProposeBlock' => (lastSel'.valid /\ lastSel'.id = getNodeId)
       /\ published' # published => (InProposeBlock /\ lastSel.id = getNodeId)]_vars

\* the local node has proposed in a slot of its own and, in a later tick, found
\* another participant selected and went on to validation without a block
C26_Witness ==
    /\ published # {}
    /\ tick.pc = "validate"
    /\ lastSel.valid
    /\ lastSel.id \in IdsOf(nodes) \ {getNodeId}
    /\ \A b \in published : b.timestamp < lastSel.at

---------------------------------------------------------------------------
(* The writers of the registry *)

\* a step of the consensus tick, or a call of getMetrics
ReaderSteps == tick' # tick \/ lastSel' # lastSel \/ published' # published \/ metrics' # metrics

\* C27: no step of the consensus tick (self-check, block assembly, validation
\* of the pending blocks) and no call of getMetrics changes the weight, the
\* reputation, the stake or the lastProposal of a participant or adds or
\* removes one; the registry changes only in a step of an epoch tick, which
\* leaves ids, stakes and lastProposal of the participants it keeps as they are.
C27_OnlyEpochWrites ==
    [][/\ ReaderSteps => nodes' = nodes
       /\ nodes' # nodes =>
            /\ \E k \in DOMAIN epoch : epoch[k].pc # "idle" /\ epoch'[k] # epoch[k]
            /\ IdsOf(nodes') \subseteq IdsOf(nodes)
            /\ \A i \in DOMAIN nodes : \A j \in DOMAIN nodes' :
                  nodes'[j].id = nodes[i].id =>
                      /\ nodes'[j].stake = nodes[i].stake
                      /\ nodes'[j].lastProposal = nodes[i].lastProposal]_vars

\* an epoch has rewritten weight and reputation of the participant whose block
\* the consensus loop has broadcast, and a health report has been read
C27_Witness ==
    /\ published # {}
    /\ metrics.valid
    /\ \E i \in DOMAIN nodes :
          /\ nodes[i].id = getNodeId
          /\ nodes[i].weight # ONE
          /\ nodes[i].reputation # ONE
          /\ nodes[i].lastProposal = 0

---------------------------------------------------------------------------
(* Stopping the loops *)

\* the consensus loop is stopped: its callback is neither in flight nor
\* waiting for its timer to fire
ConsensusStopped == tick.pc \notin {"idle", "stateRoot", "broadcast", "validate"}

\* the epoch loop is stopped: none of its callbacks is in flight or waiting
\* for the timer
EpochStopped ==
    \A k \in DOMAIN epoch : epoch[k].pc \notin {"idle", "weights", "consensus", "reputations"}

\* C28: each loop can be stopped independently of the other: whatever the
\* engine is doing, there is a step that stops the consensus loop and one that
\* stops the epoch loop, and either leaves the other loop and the registry as
\* they are.
C28_IndependentlyStoppable ==
    /\ ENABLED (NextLoops /\ ConsensusStopped' /\ UNCHANGED <<nodes, epoch, epochs>>)
    /\ ENABLED (NextLoops /\ EpochStopped' /\ UNCHANGED <<nodes, tick>>)

---------------------------------------------------------------------------
(* The proposer at the time of the broadcast *)

\* C29: every block the engine hands to the broadcast names a proposer that
\* is, at that moment, in the registry and selected for the slot of the
\* block's timestamp.
C29_ProposerAtBroadcast ==
    [][\A b \in published' \ published :
          /\ b.proposer \in IdsOf(nodes)
          /\ selectedId(nodes, b.timestamp) = b.proposer]_vars

---------------------------------------------------------------------------
(* Pruning in an epoch that fails *)

\* the callback k of the epoch transition ends on a failure of its weight
\* step or of its reputation step (that of mesh.computeConsensus included)
EndsOnFailure(k) ==
    /\ epoch[k].pc \in {"weights", "consensus", "reputations"}
    /\ epoch'[k].pc = "idle"
    /\ epoch'[k].err # ""

\* C30: pruning runs in every epoch tick: when a tick ends on a failure of its
\* weight step or of its reputation step, the participants whose inactivity
\* exceeds maxInactivity have been removed all the same.
C30_PruningDespiteFailure ==
    [][\A k \in DOMAIN epoch :
          EndsOnFailure(k) =>
              \A i \in DOMAIN nodes :
                  now - nodes[i].lastProposal > maxInactivity =>
                      nodes[i].id \notin IdsOf(nodes')]_vars

====
